---- MODULE Spec2Model ----
(***************************************************************************)
(* The pension projection engine of PensionSim Kenya,                      *)
(* calculatePensionProjection (src/src/utils/pensionCalculations.ts), as a *)
(* state machine: an input record is drawn, the engine is applied to it,   *)
(* and the returned PensionResults is kept together with the values of the *)
(* function's local constants.  A second state machine, SpecPage, is the  *)
(* page (src/src/pages/Index.tsx) driven by the income card                *)
(* (src/src/components/IncomeModelingCard.tsx): card events, re-renders    *)
(* and the completion of the computations handleDataUpdate starts.         *)
(*                                                                         *)
(* JavaScript numbers are modelled as decimal fixed-point numbers with     *)
(* five fractional digits, extended with the IEEE special values NaN and   *)
(* +/-Infinity that the engine's divisions can produce.  Every arithmetic  *)
(* operator rounds its result to the nearest representable number, as the  *)
(* double arithmetic of the source does (at a coarser grain).              *)
(***************************************************************************)
EXTENDS Integers, Sequences, FiniteSets, TLC

VARIABLES data, calendarYear, pc, locals, result, page

vars == <<data, calendarYear, pc, locals, result, page>>

-----------------------------------------------------------------------------
(* Bounds of the model.                                                    *)

\* Longest horizon: retirementAge ranges up to MinAge + MaxYears.
MaxYears == 3

\* Largest number of seasonal or gig records in an input.
MaxRecords == 2

-----------------------------------------------------------------------------
(* Numbers.                                                                *)

\* One unit is 1 / Scale.
Scale == 10 ^ 5

Half == Scale \div 2

Fin(n) == [k |-> "fin", v |-> n]

NaN == [k |-> "nan", v |-> 0]

PosInf == [k |-> "inf", v |-> 1]

NegInf == [k |-> "inf", v |-> -1]

\* An absent optional field (undefined / null).
Null == [k |-> "null", v |-> 0]

\* The number n, an integer literal.
Num(n) == Fin(n * Scale)

\* The decimal literal n / 1000, e.g. Milli(55) is 0.055.
Milli(n) == Fin(n * (Scale \div 1000))

IsNull(x) == x.k = "null"

IsNaN(x) == x.k = "nan"

IsFinite(x) == x.k = "fin"

Abs(n) == IF n < 0 THEN -n ELSE n

Sgn(n) == IF n < 0 THEN -1 ELSE 1

\* The sign of a number that is not NaN (zero counts as positive).
SignOf(x) == IF x.k = "inf" THEN x.v ELSE Sgn(x.v)

IsZero(x) == x.k = "fin" /\ x.v = 0

\* x ?? d
Coalesce(x, d) == IF IsNull(x) THEN d ELSE x

\* JavaScript truthiness of an optional number: undefined, null, 0 and NaN
\* are falsy.
Truthy(x) == ~(IsNull(x) \/ IsNaN(x) \/ IsZero(x))

\* x || d
OrElse(x, d) == IF Truthy(x) THEN x ELSE d

\* ToNumber of an operand of an arithmetic operator or a comparison:
\* null is 0 (this model does not distinguish undefined, which no input
\* of the model supplies where the engine compares or computes with it).
ToNum(x) == IF IsNull(x) THEN Fin(0) ELSE x

\* x < y
Lt(x, y) ==
  LET a == ToNum(x)
      b == ToNum(y)
  IN  IF IsNaN(a) \/ IsNaN(b) THEN FALSE
      ELSE IF a.k = "inf" THEN a.v < 0 /\ ~(b.k = "inf" /\ b.v < 0)
      ELSE IF b.k = "inf" THEN b.v > 0
      ELSE a.v < b.v

\* x > y
Gt(x, y) == Lt(y, x)

\* x >= y
Ge(x, y) ==
  LET a == ToNum(x)
      b == ToNum(y)
  IN  ~IsNaN(a) /\ ~IsNaN(b) /\ ~Lt(a, b)

\* x === y on numbers
NumEq(x, y) == ~IsNaN(x) /\ ~IsNaN(y) /\ x = y

Neg(x) == IF IsNaN(x) THEN NaN ELSE [k |-> x.k, v |-> -x.v]

\* x + y
Add(x, y) ==
  IF IsNaN(x) \/ IsNaN(y) THEN NaN
  ELSE IF x.k = "inf" /\ y.k = "inf" THEN (IF x.v = y.v THEN x ELSE NaN)
  ELSE IF x.k = "inf" THEN x
  ELSE IF y.k = "inf" THEN y
  ELSE Fin(x.v + y.v)

\* x - y
Sub(x, y) == Add(x, Neg(y))

\* The product of two non-negative fixed-point magnitudes, rounded to the
\* nearest unit; computed on base-1000 limbs so that no intermediate value
\* leaves the integer range.
MulAbs(a, b) ==
  LET a2 == a \div 1000000
      a1 == (a \div 1000) % 1000
      a0 == a % 1000
      b2 == b \div 1000000
      b1 == (b \div 1000) % 1000
      b0 == b % 1000
      w4 == a2 * b2
      w3 == a2 * b1 + a1 * b2
      w2 == a2 * b0 + a1 * b1 + a0 * b2
      w1 == a1 * b0 + a0 * b1
      w0 == a0 * b0
  IN  w4 * 10000000 + w3 * 10000 + w2 * 10
        + ((w1 * 1000 + w0 + Half) \div Scale)

\* x * y
Mul(x, y) ==
  IF IsNaN(x) \/ IsNaN(y) THEN NaN
  ELSE IF x.k = "inf" \/ y.k = "inf"
    THEN (IF IsZero(x) \/ IsZero(y) THEN NaN
          ELSE [k |-> "inf", v |-> SignOf(x) * SignOf(y)])
  ELSE Fin(Sgn(x.v) * Sgn(y.v) * MulAbs(Abs(x.v), Abs(y.v)))

RECURSIVE DivDigits(_, _, _)
\* n further decimal digits of r / b (0 <= r < b), the last one rounded.
DivDigits(r, b, n) ==
  IF n = 0 THEN (IF 2 * r >= b THEN 1 ELSE 0)
  ELSE ((r * 10) \div b) * (10 ^ (n - 1)) + DivDigits((r * 10) % b, b, n - 1)

\* The quotient of two fixed-point magnitudes (b > 0), rounded to the
\* nearest unit, by long division.
DivAbs(a, b) == (a \div b) * Scale + DivDigits(a % b, b, 5)

\* x / y
Div(x, y) ==
  IF IsNaN(x) \/ IsNaN(y) THEN NaN
  ELSE IF x.k = "inf"
    THEN (IF y.k = "inf" THEN NaN
          ELSE [k |-> "inf", v |-> x.v * SignOf(y)])
  ELSE IF y.k = "inf" THEN Fin(0)
  ELSE IF y.v = 0
    THEN (IF x.v = 0 THEN NaN ELSE [k |-> "inf", v |-> Sgn(x.v)])
  ELSE Fin(Sgn(x.v) * Sgn(y.v) * DivAbs(Abs(x.v), Abs(y.v)))

\* Math.max(x, y)
MathMax(x, y) ==
  IF IsNaN(x) \/ IsNaN(y) THEN NaN
  ELSE IF Lt(x, y) THEN y ELSE x

\* Math.min(x, y)
MathMin(x, y) ==
  IF IsNaN(x) \/ IsNaN(y) THEN NaN
  ELSE IF Lt(y, x) THEN y ELSE x

\* Math.round(x): the integer nearest to x, halves going up.
MathRound(x) ==
  IF x.k = "fin" THEN Fin(((x.v + Half) \div Scale) * Scale) ELSE x

RECURSIVE MathPow(_, _)
\* Math.pow(x, n) for an integer n >= 0, by repeated squaring.
MathPow(x, n) ==
  IF n = 0 THEN Num(1)
  ELSE LET h == MathPow(x, n \div 2)
           sq == Mul(h, h)
       IN  IF n % 2 = 0 THEN sq ELSE Mul(sq, x)

RECURSIVE RootSearch(_, _, _, _)
\* The largest y in lo..hi (fixed-point units) with y^n <= x.
RootSearch(x, n, lo, hi) ==
  IF lo >= hi THEN lo
  ELSE LET mid == (lo + hi + 1) \div 2
       IN  IF Lt(x, MathPow(Fin(mid), n))
             THEN RootSearch(x, n, lo, mid - 1)
             ELSE RootSearch(x, n, mid, hi)

\* Math.pow(x, 1 / n) for a finite x >= 1 and an integer n >= 1.
MathRoot(x, n) == Fin(RootSearch(x, n, Scale, x.v))

\* Math.pow(x, e) for a finite x >= 1 and a finite exponent e >= 0 that is a
\* whole number of halves.
MathPowNum(x, e) ==
  LET whole == MathPow(x, e.v \div Scale)
  IN  IF e.v % Scale = 0 THEN whole ELSE Mul(whole, MathRoot(x, 2))

-----------------------------------------------------------------------------
(* PensionData, the engine's input.                                        *)

\* An optional array field: absent (undefined), or present with its items.
Absent == [present |-> FALSE, items |-> <<>>]

Array(s) == [present |-> TRUE, items |-> s]

IncomeTypes == {"monthly", "seasonal", "random"}

RiskProfiles == {"low", "medium", "high"}

\* SeasonalIncome records.
SeasonalIncome(m, a) == [month |-> m, amount |-> a]

\* GigIncome records.
GigIncome(i, a, f) == [id |-> i, amount |-> a, frequencyPerYear |-> f]

\* The youngest age the engine accepts.
MinAge == 18

\* The page's initial pensionData, scaled to the range of the model's
\* numbers, completed with the optional fields the page leaves unset.
MonthlyBase ==
  [ incomeType |-> "monthly",
    monthlyIncome |-> Num(10),
    seasonalIncomes |-> Array(<<>>),
    gigIncomes |-> Absent,
    seasonalIncome |-> Null,
    seasonsPerYear |-> Null,
    averageGigIncome |-> Null,
    gigsPerYear |-> Null,
    currentAge |-> Num(MinAge),
    retirementAge |-> Num(MinAge + MaxYears),
    monthlyExpenses |-> Num(30),
    investmentRisk |-> "medium",
    contributionPercentage |-> Num(15),
    inflationRate |-> Null,
    withdrawalRate |-> Null,
    postRetirementExpenseRatio |-> Null,
    lifeExpectancy |-> Null,
    salaryGrowthRate |-> Null ]

SeasonalBase ==
  [MonthlyBase EXCEPT
     !.incomeType = "seasonal",
     !.monthlyIncome = Null,
     !.seasonalIncomes =
        Array(<<SeasonalIncome("March", Num(40)),
                SeasonalIncome("August", Num(75))>>)]

RandomBase ==
  [MonthlyBase EXCEPT
     !.incomeType = "random",
     !.monthlyIncome = Null,
     !.seasonalIncomes = Absent,
     !.gigIncomes = Array(<<GigIncome("g1", Num(20), Num(3))>>)]

Bases == {MonthlyBase, SeasonalBase, RandomBase}

\* n copies of x.
Repeat(x, n) == [i \in 1..n |-> x]

SeasonalRecords ==
  {SeasonalIncome("March", a) : a \in {Num(40), Null, Num(-5)}}

GigRecords ==
  { GigIncome("g2", Num(20), Num(3)),
    GigIncome("g2", Num(20), Num(0)),
    GigIncome("g2", Num(20), Null),
    GigIncome("g2", Null, Num(3)) }

\* The values each field ranges over; they include, for every validation
\* rule, values on both sides of its boundary.
FieldValues ==
  [ incomeType |-> IncomeTypes \cup {"hourly"},
    monthlyIncome |-> {Null, Num(-1), Num(0), Num(10)},
    seasonalIncomes |->
      {Absent, Array(<<>>)} \cup
      { Array(Repeat(SeasonalIncome("July", Num(75)), n) \o <<s>>) :
          n \in 0..(MaxRecords - 1), s \in SeasonalRecords },
    gigIncomes |->
      {Absent, Array(<<>>)} \cup
      { Array(Repeat(GigIncome("g1", Num(20), Num(3)), n) \o <<g>>) :
          n \in 0..(MaxRecords - 1), g \in GigRecords },
    seasonalIncome |-> {Null, Num(50)},
    seasonsPerYear |-> {Null, Num(2)},
    averageGigIncome |-> {Null, Num(25)},
    gigsPerYear |-> {Null, Num(4)},
    currentAge |->
      {Num(a) : a \in (MinAge - 1)..(MinAge + 1)}
        \cup {Add(Num(MinAge), Milli(500))},
    retirementAge |->
      {Num(a) : a \in (MinAge - 1)..(MinAge + MaxYears)}
        \cup {Add(Num(MinAge + h), Milli(500)) : h \in {0, MaxYears - 1}},
    monthlyExpenses |-> {Num(-1), Num(0), Num(30)},
    investmentRisk |-> RiskProfiles \cup {"extreme"},
    contributionPercentage |->
      {Num(-1), Num(0), Num(15), Num(100), Num(101)},
    inflationRate |-> {Null, Num(0), Milli(100)},
    withdrawalRate |-> {Null, Num(0), Milli(50), Milli(-40)},
    postRetirementExpenseRatio |-> {Null, Num(1), Milli(-500)},
    lifeExpectancy |-> {Null, Num(85)},
    salaryGrowthRate |-> {Null, Milli(50)},
    calendarYear |-> {2026, 2027} ]

\* The records that differ from c in at most one field.
Vary(c) ==
  {c} \cup
  UNION { {[c EXCEPT ![f] = x] : x \in FieldValues[f]} :
            f \in DOMAIN FieldValues }

\* The inputs of the model together with the calendar year of the call:
\* every base input with at most two fields changed.
Cases ==
  UNION { UNION {Vary(c) : c \in Vary(b)} :
            b \in {[f \in DOMAIN FieldValues |->
                      IF f = "calendarYear" THEN 2026 ELSE base[f]] :
                     base \in Bases} }

\* The base inputs and the inputs one field away from them.
CoreCases ==
  UNION { Vary([f \in DOMAIN FieldValues |->
                  IF f = "calendarYear" THEN 2026 ELSE base[f]]) :
            base \in Bases }

\* The PensionData of a case.
DataOf(c) == [f \in DOMAIN MonthlyBase |-> c[f]]

-----------------------------------------------------------------------------
(* calculatePensionProjection.                                             *)

\* defaults
DefaultInflationRate == Milli(55)

DefaultWithdrawalRate == Milli(40)

DefaultPostRetirementExpenseRatio == Milli(800)

inflationRate(d) == Coalesce(d.inflationRate, DefaultInflationRate)

\* The override read with || in place of ??: a supplied 0 gives the default.
withdrawalRateFalsyDefault(d) ==
  OrElse(d.withdrawalRate, DefaultWithdrawalRate)

withdrawalRate(d) == Coalesce(d.withdrawalRate, DefaultWithdrawalRate)

postRetirementExpenseRatio(d) ==
  Coalesce(d.postRetirementExpenseRatio, DefaultPostRetirementExpenseRatio)

\* The messages of the validation rules, in the order of the checks.
AgeMessage == "Current age must be at least 18."

RetirementMessage == "Retirement age must be at least current age."

ExpensesMessage == "Monthly expenses cannot be negative."

ContributionMessage == "Contribution percentage must be between 0 and 100."

RiskMessage == "Invalid investment risk profile."

MonthlyMessage ==
  "Monthly income is required and cannot be negative for monthly income type."

SeasonalMessage == "Seasonal incomes are required for seasonal income type."

GigMessage == "Gig incomes are required for random income type."

\* The conditions of the eight checks, as the code writes them.
AgeCheck(d) == Lt(d.currentAge, Num(MinAge))

RetirementCheck(d) == Lt(d.retirementAge, d.currentAge)

\* The expenses check reading the wrong field.
ExpensesCheckWrongField(d) == Lt(d.monthlyIncome, Num(0))

ExpensesCheck(d) == Lt(d.monthlyExpenses, Num(0))

\* The contribution check without its upper bound.
ContributionCheckNoUpperBound(d) == Lt(d.contributionPercentage, Num(0))

ContributionCheck(d) ==
  Lt(d.contributionPercentage, Num(0)) \/ Gt(d.contributionPercentage, Num(100))

RiskCheck(d) == d.investmentRisk \notin RiskProfiles

\* The monthly-income check applied whatever the income type.
MonthlyCheckAnyType(d) ==
  IsNull(d.monthlyIncome) \/ Lt(d.monthlyIncome, Num(0))

MonthlyCheck(d) ==
  d.incomeType = "monthly"
    /\ (IsNull(d.monthlyIncome) \/ Lt(d.monthlyIncome, Num(0)))

SeasonalCheck(d) ==
  d.incomeType = "seasonal"
    /\ (~d.seasonalIncomes.present \/ Len(d.seasonalIncomes.items) = 0)

GigCheck(d) ==
  d.incomeType = "random"
    /\ (~d.gigIncomes.present \/ Len(d.gigIncomes.items) = 0)

\* if (c) errors.push(m)
Push(c, m) == IF c THEN <<m>> ELSE <<>>

\* The errors array after the eight checks.
Errors(d) ==
  Push(AgeCheck(d), AgeMessage)
    \o Push(RetirementCheck(d), RetirementMessage)
    \o Push(ExpensesCheck(d), ExpensesMessage)
    \o Push(ContributionCheck(d), ContributionMessage)
    \o Push(RiskCheck(d), RiskMessage)
    \o Push(MonthlyCheck(d), MonthlyMessage)
    \o Push(SeasonalCheck(d), SeasonalMessage)
    \o Push(GigCheck(d), GigMessage)

RECURSIVE Join(_, _)
\* s.join(sep)
Join(s, sep) ==
  IF Len(s) = 0 THEN ""
  ELSE IF Len(s) = 1 THEN s[1]
  ELSE s[1] \o sep \o Join(Tail(s), sep)

\* The optional error field of a result.
NoError == [present |-> FALSE, text |-> ""]

ErrorText(t) == [present |-> TRUE, text |-> t]

\* The result returned when a check failed.
ErrorResult(errs) ==
  [ projectedCorpus |-> Num(0),
    requiredCorpus |-> Num(0),
    monthlyContribution |-> Num(0),
    fundingGap |-> Num(0),
    yearsToRetirement |-> Num(0),
    projectionData |-> <<>>,
    scenarios |-> <<>>,
    error |-> ErrorText(Join(errs, " ")) ]

IntMax(a, b) == IF a < b THEN b ELSE a

yearsToRetirement(d) ==
  MathMax(Sub(d.retirementAge, d.currentAge), Num(0))

monthsToRetirement(d) == Mul(yearsToRetirement(d), Num(12))

RECURSIVE SumSeasonal(_, _)
\* seasonalIncomes.reduce((sum, si) => sum + (si.amount || 0), 0), from
\* item i on with the running sum.
SumSeasonal(items, sum) ==
  IF Len(items) = 0 THEN sum
  ELSE SumSeasonal(Tail(items), Add(sum, OrElse(items[1].amount, Num(0))))

\* One gig record's term: (gi.amount || 0) * (gi.frequencyPerYear || 1)
GigTerm(gi) ==
  Mul(OrElse(gi.amount, Num(0)), OrElse(gi.frequencyPerYear, Num(1)))

RECURSIVE SumGigs(_, _)
SumGigs(items, sum) ==
  IF Len(items) = 0 THEN sum
  ELSE SumGigs(Tail(items), Add(sum, GigTerm(items[1])))

\* arr?.reduce(...) || 0
ReduceOrZero(arr, total) ==
  IF arr.present THEN OrElse(total, Num(0)) ELSE Num(0)

annualIncome(d) ==
  IF d.incomeType = "monthly"
    THEN Mul(OrElse(d.monthlyIncome, Num(0)), Num(12))
  ELSE IF d.incomeType = "seasonal"
    THEN ReduceOrZero(d.seasonalIncomes,
                      SumSeasonal(d.seasonalIncomes.items, Num(0)))
  ELSE IF d.incomeType = "random"
    THEN ReduceOrZero(d.gigIncomes, SumGigs(d.gigIncomes.items, Num(0)))
  ELSE Num(0)

\* The contribution of an income grown by salaryGrowthRate (3% when absent).
monthlyContributionGrown(d) ==
  Mul(Div(Div(Mul(annualIncome(d), d.contributionPercentage), Num(100)),
          Num(12)),
      Add(Num(1), Coalesce(d.salaryGrowthRate, Milli(30))))

monthlyContribution(d) ==
  Div(Div(Mul(annualIncome(d), d.contributionPercentage), Num(100)), Num(12))

\* returnRates
annualReturn(risk) ==
  IF risk = "low" THEN Milli(70)
  ELSE IF risk = "medium" THEN Milli(100)
  ELSE Milli(135)

\* Math.pow(1 + annualReturn, 1 / 12) - 1 for each risk profile.
MonthlyReturns ==
  [risk \in RiskProfiles |->
     Sub(MathRoot(Add(Num(1), annualReturn(risk)), 12), Num(1))]

monthlyReturn(d) == MonthlyReturns[d.investmentRisk]

\* The closed form evaluated without the guard on monthsToRetirement.
futureValueUnguarded(d) ==
  [ value |->
      Mul(monthlyContribution(d),
          Div(Sub(MathPowNum(Add(Num(1), monthlyReturn(d)),
                             monthsToRetirement(d)),
                  Num(1)),
              monthlyReturn(d))),
    divisions |-> 1 ]

\* The closed form of the future value.  divisions counts the divisions by
\* monthlyReturn that were evaluated.
futureValue(d) ==
  IF IsZero(monthsToRetirement(d))
    THEN [value |-> Num(0), divisions |-> 0]
    ELSE [ value |->
             Mul(monthlyContribution(d),
                 Div(Sub(MathPowNum(Add(Num(1), monthlyReturn(d)),
                                    monthsToRetirement(d)),
                         Num(1)),
                     monthlyReturn(d))),
           divisions |-> 1 ]

annualExpensesAtRetirement(d) ==
  Mul(Mul(d.monthlyExpenses, Num(12)), postRetirementExpenseRatio(d))

inflationAdjustedExpenses(d) ==
  Mul(annualExpensesAtRetirement(d),
      MathPowNum(Add(Num(1), inflationRate(d)), yearsToRetirement(d)))

requiredCorpus(d) == Div(inflationAdjustedExpenses(d), withdrawalRate(d))

fundingGap(d) == MathMax(Num(0), Sub(requiredCorpus(d), futureValue(d).value))

RECURSIVE MonthLoop(_, _, _)
\* The inner loop of the year that starts after monthsElapsed months.  st
\* holds the loop variable month, the balance and the number of monthly
\* steps taken so far.
MonthLoop(st, monthsElapsed, cx) ==
  IF st.month < 12 /\ Lt(Num(monthsElapsed + st.month), cx.months)
    THEN MonthLoop([ month |-> st.month + 1,
                     balance |-> Mul(Add(st.balance, cx.contribution),
                                     Add(Num(1), cx.rate)),
                     steps |-> st.steps + 1 ],
                   monthsElapsed, cx)
    ELSE st

RECURSIVE YearLoop(_, _)
\* The outer loop.  st holds the loop variable year, the balance, the
\* number of monthly steps taken and the points pushed so far.
YearLoop(st, cx) ==
  IF Ge(cx.years, Num(st.year))
    THEN LET after == MonthLoop([ month |-> 0,
                                  balance |-> st.balance,
                                  steps |-> st.steps ],
                                st.year * 12, cx)
             point ==
               [ age |-> Add(cx.currentAge, Num(st.year)),
                 year |-> cx.calendarYear + st.year,
                 contribution |-> Mul(cx.contribution, Num(12)),
                 balance |-> after.balance,
                 inflationAdjustedBalance |->
                   Div(after.balance,
                       MathPow(Add(Num(1), cx.inflationRate), st.year)) ]
         IN  YearLoop([ year |-> st.year + 1,
                        balance |-> after.balance,
                        steps |-> after.steps,
                        projectionData |-> Append(st.projectionData, point) ],
                      cx)
    ELSE st

\* The projection loop of the engine for input d, called in year `now`.
Projection(d, now) ==
  YearLoop([year |-> 0, balance |-> Num(0), steps |-> 0,
            projectionData |-> <<>>],
           [ years |-> yearsToRetirement(d),
             months |-> monthsToRetirement(d),
             currentAge |-> d.currentAge,
             calendarYear |-> now,
             contribution |-> monthlyContribution(d),
             rate |-> monthlyReturn(d),
             inflationRate |-> inflationRate(d) ])

\* The table with the medium row used for every tier.
scenarioMultipliersOneRow(risk) ==
  <<Milli(900), Milli(1000), Milli(1200)>>

\* scenarioMultipliers
scenarioMultipliers(risk) ==
  IF risk = "low" THEN <<Milli(850), Milli(1000), Milli(1150)>>
  ELSE IF risk = "medium" THEN <<Milli(900), Milli(1000), Milli(1200)>>
  ELSE <<Milli(800), Milli(1000), Milli(1300)>>

probabilities == <<30, 50, 20>>

ScenarioNames == <<"Conservative", "Expected", "Optimistic">>

\* The scenarios carrying a fixed risk instead of the input's.
ScenariosFixedRisk(d, fv) ==
  [ i \in 1..3 |->
      [ scenario |-> ScenarioNames[i],
        finalCorpus |-> Mul(fv, scenarioMultipliers(d.investmentRisk)[i]),
        probability |-> probabilities[i],
        risk |-> "medium" ] ]

Scenarios(d, fv) ==
  [ i \in 1..3 |->
      [ scenario |-> ScenarioNames[i],
        finalCorpus |-> Mul(fv, scenarioMultipliers(d.investmentRisk)[i]),
        probability |-> probabilities[i],
        risk |-> d.investmentRisk ] ]

\* The values of the engine's local constants at its return, for input d
\* and calendar year `now`.
Locals(d, now) ==
  LET errs == Errors(d)
  IN  IF Len(errs) > 0
        THEN [valid |-> FALSE, errors |-> errs]
        ELSE LET fv == futureValue(d)
                 loop == Projection(d, now)
             IN  [ valid |-> TRUE,
                   errors |-> errs,
                   yearsToRetirement |-> yearsToRetirement(d),
                   annualIncome |-> annualIncome(d),
                   monthlyContribution |-> monthlyContribution(d),
                   monthlyReturn |-> monthlyReturn(d),
                   futureValue |-> fv.value,
                   rateDivisions |-> fv.divisions,
                   requiredCorpus |-> requiredCorpus(d),
                   fundingGap |-> fundingGap(d),
                   balance |-> loop.balance,
                   monthSteps |-> loop.steps,
                   projectionData |-> loop.projectionData,
                   scenarios |-> Scenarios(d, fv.value) ]

\* The result the engine returns from the values of its locals.
Return(l) ==
  IF ~l.valid
    THEN ErrorResult(l.errors)
    ELSE [ projectedCorpus |-> MathRound(l.futureValue),
           requiredCorpus |-> MathRound(l.requiredCorpus),
           monthlyContribution |-> MathRound(l.monthlyContribution),
           fundingGap |-> MathRound(l.fundingGap),
           yearsToRetirement |-> l.yearsToRetirement,
           projectionData |-> l.projectionData,
           scenarios |-> l.scenarios,
           error |-> NoError ]

calculatePensionProjection(d, now) == Return(Locals(d, now))

-----------------------------------------------------------------------------
(* The earlier draft of the engine, which throws on an invalid input.      *)

\* The condition under which the draft throws.
draftThrows(d) ==
  \/ Lt(d.currentAge, Num(MinAge))
  \/ Lt(d.retirementAge, d.currentAge)
  \/ Lt(d.monthlyIncome, Num(0))
  \/ Lt(d.contributionPercentage, Num(0))
  \/ Lt(d.monthlyExpenses, Num(0))
  \/ d.investmentRisk \notin RiskProfiles

DraftMessage ==
  "Invalid input data: Check age, income, contribution percentage, or risk profile."

draftAnnualIncome(d) ==
  IF d.incomeType = "monthly"
    THEN Mul(ToNum(d.monthlyIncome), Num(12))
  ELSE IF d.incomeType = "seasonal"
    THEN Mul(OrElse(d.seasonalIncome, Num(0)), OrElse(d.seasonsPerYear, Num(1)))
  ELSE IF d.incomeType = "random"
    THEN Mul(OrElse(d.averageGigIncome, Num(0)), OrElse(d.gigsPerYear, Num(1)))
  ELSE Num(0)

draftMonthlyContribution(d) ==
  Div(Div(Mul(draftAnnualIncome(d), d.contributionPercentage), Num(100)),
      Num(12))

\* The closed form taken over one month more than monthsToRetirement.
draftFutureValueNextMonth(d) ==
  Mul(draftMonthlyContribution(d),
      Div(Sub(MathPowNum(Add(Num(1), monthlyReturn(d)),
                         Add(monthsToRetirement(d), Num(1))),
              Num(1)),
          monthlyReturn(d)))

\* The draft's closed form, evaluated whatever monthsToRetirement is.
draftFutureValue(d) ==
  Mul(draftMonthlyContribution(d),
      Div(Sub(MathPowNum(Add(Num(1), monthlyReturn(d)),
                         monthsToRetirement(d)),
              Num(1)),
          monthlyReturn(d)))

draftFundingGap(d) ==
  MathMax(Num(0), Sub(requiredCorpus(d), draftFutureValue(d)))

\* The draft's projection loop.
draftProjection(d, now) ==
  YearLoop([year |-> 0, balance |-> Num(0), steps |-> 0,
            projectionData |-> <<>>],
           [ years |-> yearsToRetirement(d),
             months |-> monthsToRetirement(d),
             currentAge |-> d.currentAge,
             calendarYear |-> now,
             contribution |-> draftMonthlyContribution(d),
             rate |-> monthlyReturn(d),
             inflationRate |-> inflationRate(d) ])

\* The draft for input d, called in year `now`: the exception it throws or
\* the result it returns (a result of the draft has no error field).
draftCalculatePensionProjection(d, now) ==
  IF draftThrows(d)
    THEN [thrown |-> TRUE, message |-> DraftMessage]
    ELSE [ thrown |-> FALSE,
           value |->
             [ projectedCorpus |-> MathRound(draftFutureValue(d)),
               requiredCorpus |-> MathRound(requiredCorpus(d)),
               monthlyContribution |-> MathRound(draftMonthlyContribution(d)),
               fundingGap |-> MathRound(draftFundingGap(d)),
               yearsToRetirement |-> yearsToRetirement(d),
               projectionData |-> draftProjection(d, now).projectionData,
               scenarios |-> Scenarios(d, draftFutureValue(d)),
               error |-> NoError ] ]

-----------------------------------------------------------------------------
(* The page (Index) and the income card (IncomeModelingCard).              *)

\* The page's initial pensionData, amounts in units of 10,000 KES.
InitialPensionData ==
  [MonthlyBase EXCEPT
     !.monthlyIncome = Num(5),
     !.currentAge = Num(30),
     !.retirementAge = Num(60),
     !.monthlyExpenses = Num(3)]

\* The fields the card validates, each with its range check's message.
CardKeys ==
  { "currentAge", "retirementAge", "monthlyIncome", "seasonalIncome",
    "averageGigIncome", "seasonsPerYear", "gigsPerYear", "monthlyExpenses",
    "contributionPercentage" }

NegativeIncomeMessage == "Income cannot be negative"

\* validations[key](v): the message of the range check, or null.
Validation(key, v) ==
  CASE key = "currentAge" ->
         IF Lt(v, Num(18)) \/ Gt(v, Num(65))
           THEN ErrorText("Age must be between 18 and 65") ELSE NoError
    [] key = "retirementAge" ->
         IF Lt(v, Num(50)) \/ Gt(v, Num(70))
           THEN ErrorText("Retirement age must be between 50 and 70")
           ELSE NoError
    [] key \in {"monthlyIncome", "seasonalIncome", "averageGigIncome"} ->
         IF Lt(v, Num(0)) THEN ErrorText(NegativeIncomeMessage) ELSE NoError
    [] key = "seasonsPerYear" ->
         IF Lt(v, Num(1)) \/ Gt(v, Num(12))
           THEN ErrorText("Seasons must be between 1 and 12") ELSE NoError
    [] key = "gigsPerYear" ->
         IF Lt(v, Num(1))
           THEN ErrorText("Gigs must be at least 1") ELSE NoError
    [] key = "monthlyExpenses" ->
         IF Lt(v, Num(0))
           THEN ErrorText("Expenses cannot be negative") ELSE NoError
    [] key = "contributionPercentage" ->
         IF Lt(v, Num(5)) \/ Gt(v, Num(50))
           THEN ErrorText("Contribution must be between 5% and 50%")
           ELSE NoError

\* validateInput(key, value)
validateInput(key, v) ==
  IF key \in CardKeys THEN Validation(key, v) ELSE NoError

\* The inputs the card shows for the pensionData d it was rendered with.
ShownInputs(d) ==
  (IF d.incomeType = "monthly" THEN {"monthlyIncome"}
   ELSE IF d.incomeType = "seasonal"
     THEN {"seasonalIncome", "seasonsPerYear"}
   ELSE IF d.incomeType = "random"
     THEN {"averageGigIncome", "gigsPerYear"}
   ELSE {})
  \cup {"currentAge", "retirementAge", "monthlyExpenses",
        "contributionPercentage"}

\* The values typed into each input: for every range check a value it
\* rejects and a value it accepts.
TypedValues ==
  [ monthlyIncome |-> {Num(-1), Num(0)},
    seasonalIncome |-> {Num(-1), Num(4)},
    seasonsPerYear |-> {Num(0), Num(2)},
    averageGigIncome |-> {Num(-1), Num(2)},
    gigsPerYear |-> {Num(0), Num(4)},
    currentAge |-> {Num(17), Num(65)},
    retirementAge |-> {Num(49), Num(50)},
    monthlyExpenses |-> {Num(-1), Num(0)},
    contributionPercentage |-> {Num(4), Num(50)} ]

\* No result yet: useState(null).
NoResults == [present |-> FALSE]

\* The page after its first render.  rendered is the pensionData the
\* handlers of the current render close over; pending holds the inputs of
\* the computations whose import(...).then has not run yet, oldest first;
\* errors is the card's errors state; inputs counts the card's events.
InitialPage ==
  [ pensionData |-> InitialPensionData,
    rendered |-> InitialPensionData,
    results |-> NoResults,
    pending |-> <<>>,
    errors |-> [k \in CardKeys |-> NoError],
    inputs |-> 0 ]

-----------------------------------------------------------------------------
(* The state machine.                                                      *)

NoLocals == [valid |-> FALSE, errors |-> <<>>]

\* Before the call there is no result; this placeholder is never read.
NoResult == ErrorResult(<<>>)

Init ==
  /\ \E c \in Cases :
       /\ data = DataOf(c)
       /\ calendarYear = c.calendarYear
  /\ pc = "start"
  /\ locals = NoLocals
  /\ result = NoResult
  /\ page = InitialPage

\* One call of calculatePensionProjection(data).
Calculate ==
  /\ pc = "start"
  /\ pc' = "done"
  /\ locals' = Locals(data, calendarYear)
  /\ result' = Return(locals')
  /\ UNCHANGED <<data, calendarYear, page>>

Next == Calculate

Spec == Init /\ [][Next]_vars

\* The same machine started on the core inputs only; the claims that
\* compare the call with the calls on neighbouring inputs are checked here.
InitCore ==
  /\ \E c \in CoreCases :
       /\ data = DataOf(c)
       /\ calendarYear = c.calendarYear
  /\ pc = "start"
  /\ locals = NoLocals
  /\ result = NoResult
  /\ page = InitialPage

SpecCore == InitCore /\ [][Next]_vars

-----------------------------------------------------------------------------
(* The page as a state machine: card events, re-renders and the            *)
(* completion of the computations started by handleDataUpdate.             *)

\* The number of card events in a run of the page.
MaxInputs == 2

\* handleDataUpdate(newData) on page p: the update is merged into the
\* pensionData of the current render, stored, and a computation on the
\* merged data is started.
handleDataUpdate(p, newData) ==
  LET updatedData ==
        [f \in DOMAIN p.rendered |->
           IF f \in DOMAIN newData THEN newData[f] ELSE p.rendered[f]]
  IN  [p EXCEPT !.pensionData = updatedData,
                !.pending = Append(@, updatedData)]

\* The select's onValueChange: onUpdate({ incomeType: value }).
onValueChange(p, value) ==
  [handleDataUpdate(p, [f \in {"incomeType"} |-> value])
     EXCEPT !.inputs = @ + 1]

\* A handleInputChange that records the error but passes every value on.
handleInputChangeUnchecked(p, key, value) ==
  LET error == validateInput(key, value)
      noted == [p EXCEPT !.errors[key] = error, !.inputs = @ + 1]
  IN  handleDataUpdate(noted, [f \in {key} |-> value])

\* handleInputChange(key, value) of the card on page p.
handleInputChange(p, key, value) ==
  LET error == validateInput(key, value)
      noted == [p EXCEPT !.errors[key] = error, !.inputs = @ + 1]
  IN  IF error.present
        THEN noted
        ELSE handleDataUpdate(noted, [f \in {key} |-> value])

\* The pages one card event away from p: another income pattern selected,
\* or a value typed into an input the card shows.
CardEvents(p) ==
  IF p.inputs < MaxInputs
    THEN {onValueChange(p, t) : t \in IncomeTypes \ {p.rendered.incomeType}}
           \cup UNION { {handleInputChange(p, key, value) :
                           value \in TypedValues[key]} :
                        key \in ShownInputs(p.rendered) }
    ELSE {}

\* The page re-rendered: its handlers close over the stored pensionData.
Rendered(p) == [p EXCEPT !.rendered = p.pensionData]

\* The user selects an income pattern or types a value.
CardInput ==
  /\ page' \in CardEvents(page)
  /\ UNCHANGED <<data, calendarYear, pc, locals, result>>

Render ==
  /\ page.rendered # page.pensionData
  /\ page' = Rendered(page)
  /\ UNCHANGED <<data, calendarYear, pc, locals, result>>

\* Sequence s without its i-th element.
Without(s, i) == SubSeq(s, 1, i - 1) \o SubSeq(s, i + 1, Len(s))

\* The then callback of one pending import(...) runs: the engine is applied
\* to the data the computation was started with and its result is stored.
\* Each handleDataUpdate awaits an import promise of its own and nothing in
\* the page orders their callbacks, so any pending one may run next.
Resolve ==
  /\ \E i \in 1..Len(page.pending) :
       page' =
         [page EXCEPT
            !.results =
              [ present |-> TRUE,
                value |-> calculatePensionProjection(page.pending[i],
                                                     calendarYear) ],
            !.pending = Without(@, i)]
  /\ UNCHANGED <<data, calendarYear, pc, locals, result>>

PageInit ==
  /\ data = InitialPensionData
  /\ calendarYear = 2026
  /\ pc = "page"
  /\ locals = NoLocals
  /\ result = NoResult
  /\ page = InitialPage

PageNext == CardInput \/ Render \/ Resolve

SpecPage == PageInit /\ [][PageNext]_vars

\* The income card on the page while the computations it starts are still
\* pending: the runs of the page in which no import(...) has resolved yet.
CardNext == CardInput \/ Render

SpecCard == PageInit /\ [][CardNext]_vars

\* isValidResults of ResultsSummary.
isValidResults(r) ==
  /\ Ge(r.projectedCorpus, Num(0))
  /\ Gt(r.requiredCorpus, Num(0))
  /\ Ge(r.monthlyContribution, Num(0))

\* fundingGapPercentage of ResultsSummary: the bar width and the figure of
\* the "Goal Achievement" block.
fundingGapPercentage(r) ==
  IF isValidResults(r)
    THEN MathMin(Num(100),
                 MathMax(Num(0),
                         Mul(Div(r.fundingGap, r.requiredCorpus), Num(100))))
    ELSE Num(0)

\* isShortfall of ResultsSummary: the Recommendation block is shown.
isShortfall(r) == isValidResults(r) /\ Gt(r.fundingGap, Num(0))

\* The divisor of the recommendation: yearsToRetirement * 12.
recommendationMonths(r) == Mul(r.yearsToRetirement, Num(12))

\* recommendedContribution of ResultsSummary.
recommendedContribution(r) ==
  IF isValidResults(r) /\ isShortfall(r)
    THEN Add(r.monthlyContribution,
             Div(r.fundingGap, recommendationMonths(r)))
    ELSE r.monthlyContribution

PlaceholderText ==
  "Fill in your income details to see your retirement projections"

InvalidResultsText ==
  "Invalid or incomplete results data. Please check your inputs."

\* What page p shows: the placeholder or the results summary (its figures
\* or its invalid-results block) with the dashboard charts, and the texts
\* of the messages on screen.
View(p) ==
  [ placeholder |-> ~p.results.present,
    summary |->
      IF ~p.results.present THEN "none"
      ELSE IF isValidResults(p.results.value) THEN "figures"
      ELSE "invalid",
    charts |-> p.results.present,
    messages |->
      {p.errors[k].text : k \in {i \in ShownInputs(p.rendered) :
                                   p.errors[i].present}}
        \cup (IF ~p.results.present THEN {PlaceholderText}
              ELSE IF isValidResults(p.results.value) THEN {}
              ELSE {InvalidResultsText}) ]

-----------------------------------------------------------------------------
(* The validation rules as the specification states them.                  *)

AgeRule(d) == Ge(d.currentAge, Num(18))

RetirementRule(d) == Ge(d.retirementAge, d.currentAge)

ExpensesRule(d) == Ge(d.monthlyExpenses, Num(0))

ContributionRule(d) ==
  Ge(d.contributionPercentage, Num(0)) /\ Ge(Num(100), d.contributionPercentage)

RiskRule(d) == d.investmentRisk \in {"low", "medium", "high"}

MonthlyRule(d) ==
  d.incomeType = "monthly"
    => (~IsNull(d.monthlyIncome) /\ Ge(d.monthlyIncome, Num(0)))

SeasonalRule(d) ==
  d.incomeType = "seasonal"
    => (d.seasonalIncomes.present /\ Len(d.seasonalIncomes.items) >= 1)

GigRule(d) ==
  d.incomeType = "random"
    => (d.gigIncomes.present /\ Len(d.gigIncomes.items) >= 1)

\* Rule i of the eight holds of d.
RuleHolds(i, d) ==
  CASE i = 1 -> AgeRule(d)
    [] i = 2 -> RetirementRule(d)
    [] i = 3 -> ExpensesRule(d)
    [] i = 4 -> ContributionRule(d)
    [] i = 5 -> RiskRule(d)
    [] i = 6 -> MonthlyRule(d)
    [] i = 7 -> SeasonalRule(d)
    [] i = 8 -> GigRule(d)

AllRulesHold(d) == \A i \in 1..8 : RuleHolds(i, d)

\* The message of rule i.
RuleMessages ==
  << AgeMessage, RetirementMessage, ExpensesMessage, ContributionMessage,
     RiskMessage, MonthlyMessage, SeasonalMessage, GigMessage >>

RECURSIVE MessagesOf(_, _)
\* The messages of the rules of S from rule i on, in rule order.
MessagesOf(i, S) ==
  IF i > 8 THEN <<>>
  ELSE (IF i \in S THEN <<RuleMessages[i]>> ELSE <<>>) \o MessagesOf(i + 1, S)

\* The text made of the messages of the rules of S.  No message occurs
\* inside another one or across the space between two, so a text of this
\* table contains the message of rule i exactly when i is in its S.
TextOf == [S \in SUBSET (1..8) |-> Join(MessagesOf(1, S), " ")]

\* The error text t contains the message of rule i.
ContainsMessage(t, i) == \E S \in SUBSET (1..8) : i \in S /\ TextOf[S] = t

Done == pc = "done"

\* The engine returned a projection, not an error.
Projected == Done /\ ~result.error.present

-----------------------------------------------------------------------------
(* Claims.                                                                 *)

\* C1: an input that violates at least one validation rule gets a result
\* whose error text is set and non-empty, whose five numeric fields are 0
\* and whose projectionData and scenarios are empty.
C1_InvalidInputYieldsZeroedErrorResult ==
  (Done /\ ~AllRulesHold(data)) =>
    /\ result.error.present
    /\ result.error.text # ""
    /\ result.projectedCorpus = Num(0)
    /\ result.requiredCorpus = Num(0)
    /\ result.monthlyContribution = Num(0)
    /\ result.fundingGap = Num(0)
    /\ result.yearsToRetirement = Num(0)
    /\ result.projectionData = <<>>
    /\ result.scenarios = <<>>

\* An input breaking two rules at once has been answered.
C1_Witness ==
  /\ Done
  /\ ~RetirementRule(data)
  /\ ~ExpensesRule(data)
  /\ result.error.present

\* C6: a valid input gets exactly three scenarios, Conservative, Expected,
\* Optimistic, with probabilities 30, 50, 20 (100 in all), each echoing the
\* input's investmentRisk.
C6_ThreeScenariosEchoRisk ==
  (Done /\ AllRulesHold(data)) =>
    /\ Len(result.scenarios) = 3
    /\ result.scenarios[1].scenario = "Conservative"
    /\ result.scenarios[2].scenario = "Expected"
    /\ result.scenarios[3].scenario = "Optimistic"
    /\ result.scenarios[1].probability = 30
    /\ result.scenarios[2].probability = 50
    /\ result.scenarios[3].probability = 20
    /\ result.scenarios[1].probability + result.scenarios[2].probability
         + result.scenarios[3].probability = 100
    /\ \A i \in 1..3 : result.scenarios[i].risk = data.investmentRisk

\* A high-risk input has its three scenarios.
C6_Witness ==
  /\ Done
  /\ AllRulesHold(data)
  /\ data.investmentRisk = "high"
  /\ Len(result.scenarios) = 3

\* C7: with currentAge = retirementAge and the input otherwise valid, the
\* result has yearsToRetirement 0, projectedCorpus 0 and one projection
\* point, of age currentAge and balance 0, and no division by the monthly
\* rate was evaluated.
C7_ZeroHorizon ==
  (Done /\ AllRulesHold(data) /\ data.currentAge = data.retirementAge) =>
    /\ result.yearsToRetirement = Num(0)
    /\ result.projectedCorpus = Num(0)
    /\ Len(result.projectionData) = 1
    /\ result.projectionData[1].age = data.currentAge
    /\ result.projectionData[1].balance = Num(0)
    /\ locals.rateDivisions = 0

\* A zero-horizon input with a positive contribution has been projected.
C7_Witness ==
  /\ Projected
  /\ data.currentAge = data.retirementAge
  /\ Gt(locals.monthlyContribution, Num(0))
  /\ Len(result.projectionData) = 1

\* C8: the error text contains the message of a rule exactly when the
\* input violates that rule, so the result carries no error exactly when
\* all eight rules hold.
C8_MessagePerViolatedRule ==
  Done =>
    /\ \A i \in 1..8 :
         (result.error.present /\ ContainsMessage(result.error.text, i))
           <=> ~RuleHolds(i, data)
    /\ ~result.error.present <=> AllRulesHold(data)

\* An input breaking the contribution rule only at its upper bound, and
\* the seasonal rule, carries exactly those two messages.
C8_Witness ==
  /\ Done
  /\ Gt(data.contributionPercentage, Num(100))
  /\ ~SeasonalRule(data)
  /\ result.error.text = ContributionMessage \o " " \o SeasonalMessage

\* The last point of a projection.
LastPoint(points) == points[Len(points)]

\* a and b agree up to a rounding tolerance: both are finite and differ by
\* at most a thousandth of the larger magnitude plus a hundredth of a unit
\* (forty times the error the model's own arithmetic accumulates over the
\* longest horizon).
AgreeToTolerance(a, b) ==
  /\ IsFinite(a)
  /\ IsFinite(b)
  /\ Abs(a.v - b.v) * 1000 <= IntMax(Abs(a.v), Abs(b.v)) + Scale \div 100

\* C2: for a valid input with yearsToRetirement >= 1 and a monthly rate
\* other than 0, the closed-form value reported as projectedCorpus agrees,
\* up to rounding tolerance, with the balance the month-by-month loop
\* reaches, the balance of the last projection point.
C2_ClosedFormAgreesWithLoop ==
  (Projected /\ Ge(result.yearsToRetirement, Num(1))
     /\ ~IsZero(locals.monthlyReturn)) =>
    AgreeToTolerance(locals.futureValue,
                     LastPoint(result.projectionData).balance)

\* C3: for an input that passes validation the returned fundingGap,
\* projectedCorpus, requiredCorpus and monthlyContribution are all >= 0.
C3_ResultsNonNegative ==
  Projected =>
    /\ Ge(result.fundingGap, Num(0))
    /\ Ge(result.projectedCorpus, Num(0))
    /\ Ge(result.requiredCorpus, Num(0))
    /\ Ge(result.monthlyContribution, Num(0))

\* C4: for a valid input the returned fundingGap equals
\* max(0, requiredCorpus - projectedCorpus) of the returned values, and it
\* is 0 exactly when the returned projectedCorpus is at least the returned
\* requiredCorpus.
C4_GapOfReturnedCorpora ==
  Projected =>
    /\ NumEq(result.fundingGap,
             MathMax(Num(0),
                     Sub(result.requiredCorpus, result.projectedCorpus)))
    /\ IsZero(result.fundingGap)
         <=> Ge(result.projectedCorpus, result.requiredCorpus)

\* C5: whenever scenarios are produced, the finalCorpus of the Expected
\* scenario equals the projectedCorpus of the same result.
C5_ExpectedEqualsProjectedCorpus ==
  (Done /\ Len(result.scenarios) > 0) =>
    \A i \in 1..Len(result.scenarios) :
      result.scenarios[i].scenario = "Expected"
        => NumEq(result.scenarios[i].finalCorpus, result.projectedCorpus)

\* A missing amount counts as 0, a missing frequency as 1; a value that a
\* record supplies counts as itself.
AmountOf(r) == Coalesce(r.amount, Num(0))

FrequencyOf(r) == Coalesce(r.frequencyPerYear, Num(1))

RECURSIVE SumOfAmounts(_)
SumOfAmounts(items) ==
  IF Len(items) = 0 THEN Num(0)
  ELSE Add(AmountOf(items[1]), SumOfAmounts(Tail(items)))

RECURSIVE SumOfGigs(_)
SumOfGigs(items) ==
  IF Len(items) = 0 THEN Num(0)
  ELSE Add(Mul(AmountOf(items[1]), FrequencyOf(items[1])),
           SumOfGigs(Tail(items)))

\* The annual income the specification gives an input of one of the three
\* income types.
StatedAnnualIncome(d) ==
  CASE d.incomeType = "monthly" -> Mul(d.monthlyIncome, Num(12))
    [] d.incomeType = "seasonal" -> SumOfAmounts(d.seasonalIncomes.items)
    [] d.incomeType = "random" -> SumOfGigs(d.gigIncomes.items)

\* C9: for a valid input the annual income used for the contribution is
\* monthlyIncome * 12 (monthly), the sum of the seasonal amounts (seasonal),
\* the sum of amount * frequencyPerYear over the gig records (random), for
\* every frequency a record supplies.
C9_AnnualIncomePerIncomeType ==
  (Projected /\ data.incomeType \in IncomeTypes) =>
    NumEq(locals.annualIncome, StatedAnnualIncome(data))

\* The payload fields of each income variant.
VariantFields ==
  [ monthly |-> {"monthlyIncome"},
    seasonal |-> {"seasonalIncomes", "seasonalIncome", "seasonsPerYear"},
    random |-> {"gigIncomes", "averageGigIncome", "gigsPerYear"} ]

\* The payload fields that do not belong to the variant of income type t.
InactiveFields(t) ==
  (UNION {VariantFields[u] : u \in IncomeTypes})
    \ (IF t \in IncomeTypes THEN VariantFields[t] ELSE {})

\* C10: the engine reads no payload field of an inactive income variant:
\* an input that differs from the given one only in such a field gets the
\* same result, error text included.
C10_InactiveVariantFieldsUnread ==
  Done =>
    \A f \in InactiveFields(data.incomeType) :
      \A x \in FieldValues[f] :
        calculatePensionProjection([data EXCEPT ![f] = x], calendarYear)
          = result

\* A seasonal input without monthlyIncome has been projected, and the same
\* input with a negative monthlyIncome gets the same projection.
C10_Witness ==
  /\ Projected
  /\ data.incomeType = "seasonal"
  /\ IsNull(data.monthlyIncome)
  /\ calculatePensionProjection([data EXCEPT !.monthlyIncome = Num(-1)],
                                calendarYear) = result

\* C11: of two inputs that both pass validation and differ only in
\* contributionPercentage, the one with the larger percentage gets a
\* projectedCorpus that is not smaller.
C11_CorpusMonotoneInContribution ==
  Projected =>
    \A p \in FieldValues.contributionPercentage :
      LET other == [data EXCEPT !.contributionPercentage = p]
      IN  (Len(Errors(other)) = 0 /\ Ge(p, data.contributionPercentage)) =>
            Ge(calculatePensionProjection(other, calendarYear).projectedCorpus,
               result.projectedCorpus)

\* Every numeric field of result r is a finite number.
AllFieldsFinite(r) ==
  /\ IsFinite(r.projectedCorpus)
  /\ IsFinite(r.requiredCorpus)
  /\ IsFinite(r.monthlyContribution)
  /\ IsFinite(r.fundingGap)
  /\ \A i \in 1..Len(r.projectionData) :
       /\ IsFinite(r.projectionData[i].contribution)
       /\ IsFinite(r.projectionData[i].balance)
       /\ IsFinite(r.projectionData[i].inflationAdjustedBalance)
  /\ \A i \in 1..Len(r.scenarios) : IsFinite(r.scenarios[i].finalCorpus)

\* C13: for an input that passes validation, whatever the overrides
\* inflationRate, withdrawalRate and postRetirementExpenseRatio are, the
\* division by the withdrawal rate is not a division by zero and every
\* numeric field of the result is a finite number.
C13_NoArithmeticFault ==
  Projected =>
    /\ ~IsZero(withdrawalRate(data))
    /\ AllFieldsFinite(result)

\* An economic assumption: the caller's override when one is supplied,
\* otherwise the default.
AssumptionOf(override, default) ==
  IF IsNull(override) THEN default ELSE override

\* The required corpus the specification states for input d.
StatedRequiredCorpus(d) ==
  MathRound(
    Div(Mul(Mul(Mul(d.monthlyExpenses, Num(12)),
                AssumptionOf(d.postRetirementExpenseRatio, Milli(800))),
            MathPowNum(Add(Num(1), AssumptionOf(d.inflationRate, Milli(55))),
                       MathMax(Sub(d.retirementAge, d.currentAge), Num(0)))),
        AssumptionOf(d.withdrawalRate, Milli(40))))

\* C14: for a valid input, requiredCorpus is the rounding of
\* monthlyExpenses * 12 * postRetirementExpenseRatio
\*   * (1 + inflationRate)^yearsToRetirement / withdrawalRate,
\* each assumption being the override when supplied, else its default
\* (0.055, 0.04, 0.8).
C14_RequiredCorpusFormula ==
  Projected => result.requiredCorpus = StatedRequiredCorpus(data)

\* A projection under a supplied withdrawal rate of 5% over a horizon of at
\* least one year, and one with no override at all.
C14_Witness ==
  /\ Projected
  /\ Ge(result.yearsToRetirement, Num(1))
  /\ IsFinite(result.requiredCorpus)
  /\ Gt(result.requiredCorpus, Num(0))
  /\ \/ data.withdrawalRate = Milli(50)
     \/ /\ IsNull(data.withdrawalRate)
        /\ IsNull(data.inflationRate)
        /\ IsNull(data.postRetirementExpenseRatio)
  /\ result.requiredCorpus = StatedRequiredCorpus(data)

\* The multipliers the specification states for each risk tier, for the
\* Conservative, Expected and Optimistic scenarios.
StatedMultipliers ==
  [ low |-> <<Milli(850), Milli(1000), Milli(1150)>>,
    medium |-> <<Milli(900), Milli(1000), Milli(1200)>>,
    high |-> <<Milli(800), Milli(1000), Milli(1300)>> ]

\* C15: for a valid input, the finalCorpus of the Conservative, Expected and
\* Optimistic scenarios is the terminal corpus (the value projectedCorpus
\* is the rounding of) times 0.85, 1.00, 1.15 for low risk, 0.90, 1.00, 1.20
\* for medium and 0.80, 1.00, 1.30 for high.
C15_ScenarioMultipliers ==
  Projected =>
    /\ result.projectedCorpus = MathRound(locals.futureValue)
    /\ Len(result.scenarios) = 3
    /\ \A i \in 1..3 :
         /\ result.scenarios[i].scenario = ScenarioNames[i]
         /\ result.scenarios[i].finalCorpus =
              Mul(locals.futureValue,
                  StatedMultipliers[data.investmentRisk][i])

\* A high-risk input with a positive terminal corpus has been projected;
\* its Optimistic scenario is above and its Conservative one below it.
C15_Witness ==
  /\ Projected
  /\ data.investmentRisk = "high"
  /\ Gt(locals.futureValue, Num(0))
  /\ result.scenarios[3].finalCorpus = Mul(locals.futureValue, Milli(1300))
  /\ Gt(result.scenarios[3].finalCorpus, locals.futureValue)
  /\ Lt(result.scenarios[1].finalCorpus, locals.futureValue)

\* C16: for a valid input, projectionData holds yearsToRetirement + 1
\* points, the point of year y = 0..yearsToRetirement having
\* age = currentAge + y, year = the current calendar year + y and
\* contribution = 12 * monthlyContribution, so that the ages ascend from
\* currentAge to retirementAge.
C16_OnePointPerYear ==
  Projected =>
    LET points == result.projectionData
    IN  /\ Num(Len(points)) = Add(result.yearsToRetirement, Num(1))
        /\ \A i \in 1..Len(points) :
             /\ points[i].age = Add(data.currentAge, Num(i - 1))
             /\ points[i].year = calendarYear + (i - 1)
             /\ points[i].contribution =
                  Mul(Num(12), locals.monthlyContribution)
        /\ \A i \in 1..(Len(points) - 1) :
             Lt(points[i].age, points[i + 1].age)
        /\ points[1].age = data.currentAge
        /\ LastPoint(points).age = data.retirementAge

\* C17: with contributionPercentage = 0 and the input otherwise valid, the
\* result has monthlyContribution 0, projectedCorpus 0 and a fundingGap
\* equal to requiredCorpus.
C17_ZeroContribution ==
  (Projected /\ IsZero(data.contributionPercentage)) =>
    /\ NumEq(result.monthlyContribution, Num(0))
    /\ NumEq(result.projectedCorpus, Num(0))
    /\ NumEq(result.fundingGap, result.requiredCorpus)

\* C20: lifeExpectancy and salaryGrowthRate are not read: an input that
\* differs from the given one only in one or both of them gets the same
\* result.
C20_InformationalFieldsUnread ==
  Done =>
    \A le \in FieldValues.lifeExpectancy :
      \A sg \in FieldValues.salaryGrowthRate :
        calculatePensionProjection(
          [data EXCEPT !.lifeExpectancy = le, !.salaryGrowthRate = sg],
          calendarYear) = result

\* An input without the two fields has been projected with a positive
\* corpus, and the same input with lifeExpectancy 85 and salaryGrowthRate
\* 5% gets the same projection.
C20_Witness ==
  /\ Projected
  /\ IsNull(data.lifeExpectancy)
  /\ IsNull(data.salaryGrowthRate)
  /\ Gt(result.projectedCorpus, Num(0))
  /\ calculatePensionProjection(
       [data EXCEPT !.lifeExpectancy = Num(85),
                    !.salaryGrowthRate = Milli(50)],
       calendarYear) = result

\* C18: whenever the result the page holds carries an error, the page shows
\* neither the figures of the results summary nor the dashboard charts, and
\* it shows the validation message of the result.
C18_ErrorResultShowsMessageOnly ==
  (page.results.present /\ page.results.value.error.present) =>
    /\ View(page).summary # "figures"
    /\ ~View(page).charts
    /\ page.results.value.error.text \in View(page).messages

RECURSIVE CardReachable(_)
\* The pages reachable from the pages of S by card events and re-renders.
CardReachable(S) ==
  LET next == S \cup UNION {CardEvents(p) \cup {Rendered(p)} : p \in S}
  IN  IF next = S THEN S ELSE CardReachable(next)

\* C19: for each income pattern the card offers there is a sequence of card
\* inputs, from the page's initial state, after which the engine's result
\* for the page's pensionData carries no error.
C19_EveryPatternCanBeProjected ==
  (page = InitialPage) =>
    \A t \in IncomeTypes :
      \E p \in CardReachable({page}) :
        /\ p.pensionData.incomeType = t
        /\ ~calculatePensionProjection(p.pensionData,
                                       calendarYear).error.present

RECURSIVE StepsFrom(_, _, _)
\* st.left further monthly steps from balance st.balance, each a deposit of
\* c followed by growth at rate r on the whole balance.
StepsFrom(st, c, r) ==
  IF st.left = 0 THEN st.balance
  ELSE StepsFrom([ left |-> st.left - 1,
                   balance |-> Mul(Add(st.balance, c), Add(Num(1), r)) ],
                 c, r)

\* The balance after n monthly steps from an empty account.
BalanceAfter(n, c, r) == StepsFrom([left |-> n, balance |-> Num(0)], c, r)

\* The smaller of two integers.
IntMin(a, b) == IF a < b THEN a ELSE b

\* C21: the loop applies exactly 12 * yearsToRetirement monthly steps
\* (deposit, then growth); the point of year y carries the balance after
\* min(12 * (y + 1), 12 * yearsToRetirement) steps and
\* inflationAdjustedBalance = balance / (1 + inflationRate)^y; the last two
\* points carry the same balance when yearsToRetirement >= 1.
C21_LoopStepsAndPoints ==
  Projected =>
    LET points == result.projectionData
        months == Mul(Num(12), result.yearsToRetirement)
    IN  /\ Num(locals.monthSteps) = months
        /\ \A i \in 1..Len(points) :
             /\ points[i].balance =
                  BalanceAfter(IntMin(12 * i, months.v \div Scale),
                               locals.monthlyContribution,
                               locals.monthlyReturn)
             /\ points[i].inflationAdjustedBalance =
                  Div(points[i].balance,
                      MathPow(Add(Num(1), inflationRate(data)), i - 1))
        /\ Ge(result.yearsToRetirement, Num(1)) =>
             points[Len(points)].balance = points[Len(points) - 1].balance

\* C22: once every computation started by handleDataUpdate has completed,
\* the results state is calculatePensionProjection of the page's latest
\* pensionData: the result of an older input never replaces a newer one's.
C22_ResultsOfLatestData ==
  (page.results.present /\ Len(page.pending) = 0) =>
    page.results.value =
      calculatePensionProjection(page.pensionData, calendarYear)

\* The fields of pensionData whose value differs between two page states.
ChangedFields(p, q) ==
  { f \in DOMAIN p.pensionData : q.pensionData[f] # p.pensionData[f] }

\* C23: handleDataUpdate replaces only the fields named in newData and leaves
\* every other field of pensionData unchanged, also when two updates are
\* issued before the page re-renders.  Every update the income card issues
\* names exactly one field, so no step of the page changes the value of more
\* than one field of pensionData.
C23_UpdateKeepsOtherFields ==
  [][Cardinality(ChangedFields(page, page')) <= 1]_vars

\* The range each input of the income card is documented to accept; an
\* absent upper end is Null.
StatedRanges ==
  [ currentAge |-> [lo |-> Num(18), hi |-> Num(65)],
    retirementAge |-> [lo |-> Num(50), hi |-> Num(70)],
    monthlyIncome |-> [lo |-> Num(0), hi |-> Null],
    seasonalIncome |-> [lo |-> Num(0), hi |-> Null],
    averageGigIncome |-> [lo |-> Num(0), hi |-> Null],
    seasonsPerYear |-> [lo |-> Num(1), hi |-> Num(12)],
    gigsPerYear |-> [lo |-> Num(1), hi |-> Null],
    monthlyExpenses |-> [lo |-> Num(0), hi |-> Null],
    contributionPercentage |-> [lo |-> Num(5), hi |-> Num(50)] ]

InStatedRange(key, v) ==
  /\ Ge(v, StatedRanges[key].lo)
  /\ IsNull(StatedRanges[key].hi) \/ ~Gt(v, StatedRanges[key].hi)

\* C24: handleInputChange(key, value) with a value outside the field's range
\* does not call onUpdate (pensionData is unchanged and no computation is
\* started) and records the field's error; with a value inside the range it
\* clears the field's error and calls onUpdate with exactly {key: value}
\* (the stored data is the rendered data with that one field replaced, and
\* one computation on it is started).  This holds of every input the card
\* shows, on every page the machine reaches.
C24_HandleInputChange ==
  \A key \in ShownInputs(page.rendered) :
    \A value \in TypedValues[key] :
      LET q == handleInputChange(page, key, value)
      IN  /\ \A k \in CardKeys \ {key} : q.errors[k] = page.errors[k]
          /\ IF InStatedRange(key, value)
               THEN /\ ~q.errors[key].present
                    /\ q.pensionData[key] = value
                    /\ \A f \in DOMAIN q.pensionData \ {key} :
                         q.pensionData[f] = page.rendered[f]
                    /\ q.pending = Append(page.pending, q.pensionData)
               ELSE /\ q.errors[key].present
                    /\ q.errors[key].text # ""
                    /\ q.pensionData = page.pensionData
                    /\ q.pending = page.pending

\* A page on which the card has rejected one value and accepted another.
C24_Witness ==
  /\ \E key \in CardKeys : page.errors[key].present
  /\ page.pensionData # InitialPensionData
  /\ Len(page.pending) = 1

\* C25: with incomeType monthly, every pensionData the page reaches through
\* values the income card accepts passes the engine's validation: the engine
\* collects no error message for it, nor for the input of any computation the
\* page has started on it.
C25_AcceptedDataIsValid ==
  /\ page.pensionData.incomeType = "monthly" =>
       Len(Errors(page.pensionData)) = 0
  /\ \A i \in 1..Len(page.pending) :
       page.pending[i].incomeType = "monthly" =>
         Len(Errors(page.pending[i])) = 0

\* C26: the results summary shows its "Invalid or incomplete results data"
\* block exactly when the result it is given carries an error; for every
\* result without an error it shows the projection figures.
C26_InvalidBlockIffError ==
  page.results.present =>
    /\ View(page).summary = "invalid" <=> page.results.value.error.present
    /\ InvalidResultsText \in View(page).messages
         <=> page.results.value.error.present
    /\ ~page.results.value.error.present => View(page).summary = "figures"

\* C27: whenever the results summary shows the shortfall recommendation for
\* an engine result, the recommended contribution monthlyContribution +
\* fundingGap / (yearsToRetirement * 12) is computed without dividing by
\* zero and is a finite number.
C27_RecommendationIsFinite ==
  (Done /\ isShortfall(result)) =>
    /\ ~IsZero(recommendationMonths(result))
    /\ IsFinite(recommendedContribution(result))

\* The share of the required corpus the projected corpus achieves, in per
\* cent and capped at 100: min(100, projectedCorpus / requiredCorpus * 100).
StatedGoalAchievement(r) ==
  IF Ge(r.projectedCorpus, r.requiredCorpus) THEN Num(100)
  ELSE Mul(Div(r.projectedCorpus, r.requiredCorpus), Num(100))

\* a and b are finite and show the same figure to one decimal place.
SameToOneDecimal(a, b) ==
  /\ IsFinite(a)
  /\ IsFinite(b)
  /\ Abs(a.v - b.v) <= Scale \div 10

\* C28: for every result without an error that has requiredCorpus > 0 and
\* is shown as figures, the percentage displayed under "Goal Achievement"
\* (bar width and "% of target") is the share of the required corpus that
\* the projected corpus achieves, capped at 100.
C28_GoalAchievementPercentage ==
  (Projected /\ isValidResults(result) /\ IsFinite(result.requiredCorpus)) =>
    SameToOneDecimal(fundingGapPercentage(result),
                     StatedGoalAchievement(result))

\* The input is one both drafts accept: the engine returned a result
\* without an error and the throwing draft does not throw.
BothAccept == Projected /\ ~draftThrows(data)

\* C29: for every input with incomeType monthly that both drafts accept, the
\* throwing draft returns the result the engine returns, field for field,
\* also at yearsToRetirement = 0, where only the engine guards the closed
\* form.
C29_DraftsAgreeOnMonthly ==
  (BothAccept /\ data.incomeType = "monthly") =>
    LET draft == draftCalculatePensionProjection(data, calendarYear)
    IN  ~draft.thrown /\ draft.value = result

\* A monthly input both drafts accept, with a contribution above 0 and
\* yearsToRetirement = 0.
C29_Witness ==
  /\ BothAccept
  /\ data.incomeType = "monthly"
  /\ IsZero(result.yearsToRetirement)
  /\ Gt(locals.monthlyContribution, Num(0))

\* The rules on the fields every income pattern shares.
CommonRulesHold(d) == \A i \in 1..5 : RuleHolds(i, d)

\* C30: for an input whose incomeType is none of monthly, seasonal and
\* random and whose common fields satisfy the validation rules, the engine
\* returns no error and treats the annual income as 0: monthlyContribution
\* is 0, projectedCorpus is 0 and fundingGap equals requiredCorpus.
C30_UnknownIncomeType ==
  (Done /\ data.incomeType \notin IncomeTypes /\ CommonRulesHold(data)) =>
    /\ ~result.error.present
    /\ IsZero(locals.annualIncome)
    /\ NumEq(result.monthlyContribution, Num(0))
    /\ NumEq(result.projectedCorpus, Num(0))
    /\ NumEq(result.fundingGap, result.requiredCorpus)

====
